---- MODULE Spec2Model ----
(***************************************************************************)
(* A model of the kodukai_analyzer dashboard (src/app.py and the two       *)
(* spreadsheet connectors): load_data, the period selector, the            *)
(* aggregations and the period comparison of one render pass of main.      *)
(*                                                                         *)
(* Strings the code inspects character by character (period keys,          *)
(* category labels, search terms) are sequences of one-character strings.  *)
(* Amounts are integers (yen); a mean rounded to 2 decimals is an integer  *)
(* number of hundredths; an exact mean is a fraction [n, d].               *)
(* The kanji of the display label are written "nen" and "gatsu".           *)
(***************************************************************************)
EXTENDS Integers, Sequences, FiniteSets, TLC

VARIABLES sheet, pc, attempted, raw, df, selector, filtered, sidebar,
          analysis, view, outcome

vars == <<sheet, pc, attempted, raw, df, selector, filtered, sidebar,
          analysis, view, outcome>>

(***************************************************************************)
(* Bounds of the model.                                                    *)
(***************************************************************************)
MaxRows == 2
MaxLoadRows == 2

(***************************************************************************)
(* Characters and strings.                                                 *)
(***************************************************************************)
\* The characters the model uses, in code point order (Python compares
\* strings by code point).
Alphabet == <<"(", ".", "0", "1", "2", "3", "4", "5", "6", "7", "8", "9",
              "F", "a", "b", "d", "f", "i", "n", "o", "r", "s", "t">>

CharOrd(c) == CHOOSE i \in 1..Len(Alphabet) : Alphabet[i] = c

DigitChars == <<"0", "1", "2", "3", "4", "5", "6", "7", "8", "9">>

IsDigit(c) == \E i \in 1..10 : DigitChars[i] = c

DigitVal(c) == (CHOOSE i \in 1..10 : DigitChars[i] = c) - 1

SetMin(S) == CHOOSE m \in S : \A x \in S : m <= x

SetMax(S) == CHOOSE m \in S : \A x \in S : x <= m

\* a < b for Python strings
StrLess(a, b) ==
    LET n == IF Len(a) < Len(b) THEN Len(a) ELSE Len(b)
        diff == {i \in 1..n : a[i] # b[i]}
    IN IF diff = {} THEN Len(a) < Len(b)
       ELSE CharOrd(a[SetMin(diff)]) < CharOrd(b[SetMin(diff)])

StrLE(a, b) == a = b \/ StrLess(a, b)

\* str(n) for an integer n >= 0
RECURSIVE IntToStr(_)
IntToStr(n) ==
    IF n < 10 THEN <<DigitChars[n + 1]>>
    ELSE IntToStr(n \div 10) \o <<DigitChars[(n % 10) + 1]>>

\* the value of a string of digits
RECURSIVE DigitsToInt(_)
DigitsToInt(s) ==
    IF s = <<>> THEN 0
    ELSE 10 * DigitsToInt(SubSeq(s, 1, Len(s) - 1)) + DigitVal(s[Len(s)])

\* s[:k]
Prefix(s, k) == SubSeq(s, 1, IF k < Len(s) THEN k ELSE Len(s))

\* s[i:j] for 0 <= i <= j
Slice(s, i, j) == SubSeq(s, i + 1, IF j < Len(s) THEN j ELSE Len(s))

(***************************************************************************)
(* Raw cells of the spreadsheet, as get_all_records hands them over: a     *)
(* number or a string.                                                     *)
(***************************************************************************)
IntCell(n) == [k |-> "int", n |-> n, s |-> <<>>]

StrCell(s) == [k |-> "str", n |-> 0, s |-> s]

\* a timestamp cell: a parseable date-time (day number, second of the day)
\* or something pd.to_datetime cannot parse
IsoCell(d, t) == [k |-> "iso", day |-> d, sec |-> t]

BadTs == [k |-> "bad", day |-> 0, sec |-> 0]

\* the amount of a record: missing (NaN) or a number
NaN == [nan |-> TRUE, v |-> 0]

Num(v) == [nan |-> FALSE, v |-> v]

\* the timestamp of a record: missing (NaT) or day and second of the day
NaT == [nat |-> TRUE, day |-> 0, sec |-> 0]

(***************************************************************************)
(* load_data: the coercions of one row.                                    *)
(***************************************************************************)
MinCols == 4

KeyWidth == 6

YearEnd == 4

\* pd.to_numeric(errors='coerce')
ToNumeric(c) ==
    IF c.k = "int" THEN Num(c.n)
    ELSE IF c.s # <<>> /\ \A i \in 1..Len(c.s) : IsDigit(c.s[i])
         THEN Num(DigitsToInt(c.s))
         ELSE NaN

\* pd.to_datetime(errors='coerce')
ToDatetime(c) ==
    IF c.k = "iso" THEN [nat |-> FALSE, day |-> c.day, sec |-> c.sec] ELSE NaT

\* astype(str)
AsStr(c) == IF c.k = "int" THEN IntToStr(c.n) ELSE c.s

\* str.zfill(width): left-pad with "0" up to width, longer strings unchanged
RECURSIVE ZFill(_, _)
ZFill(s, width) == IF Len(s) >= width THEN s ELSE ZFill(<<"0">> \o s, width)

\* one row of the frame load_data returns
NormalizeRow(r) ==
    LET nengetsu == ZFill(AsStr(r.per), KeyWidth)
        nen == Prefix(nengetsu, YearEnd)
        tsuki == Slice(nengetsu, YearEnd, KeyWidth)
        nichiji == ToDatetime(r.ts)
    IN [koumoku |-> r.cat,
        kingaku |-> ToNumeric(r.amt),
        nichiji |-> nichiji,
        nengetsu |-> nengetsu,
        nen |-> nen,
        tsuki |-> tsuki,
        hyouji |-> nen \o <<"nen">> \o tsuki \o <<"gatsu">>,
        nengappi |-> [nat |-> nichiji.nat, day |-> nichiji.day]]

\* pd.DataFrame(): no rows, no columns
EmptyFrame == [ncols |-> 0, rows |-> <<>>]

\* DataFrame.empty
FrameEmpty(f) == f.ncols = 0 \/ f.rows = <<>>

(***************************************************************************)
(* The spreadsheets the data source may hold.                              *)
(***************************************************************************)
RawRow(c, a, t, p) == [cat |-> c, amt |-> a, ts |-> t, per |-> p]

Food == <<"f", "o", "o", "d">>

Transit == <<"t", "r", "a", "n", "s", "i", "t">>

RECURSIVE SeqsUpTo(_, _)
SeqsUpTo(S, n) ==
    IF n = 0 THEN {<<>>}
    ELSE LET shorter == SeqsUpTo(S, n - 1)
         IN shorter \cup {Append(q, x) : q \in {t \in shorter : Len(t) = n - 1}, x \in S}

\* rows whose cells exercise every coercion of load_data
LoadRows ==
    {RawRow(Food, a, t, p) :
        a \in {IntCell(300), StrCell(<<"a", "b">>)},
        t \in {IsoCell(1, 0), BadTs},
        p \in {IntCell(202311), IntCell(5), IntCell(2023111),
               StrCell(<<>>), StrCell(<<"a", "b">>)}}

LoadSheets ==
    {[ncols |-> n, rows |-> rs] :
        n \in (MinCols - 1)..(MinCols + 1), rs \in SeqsUpTo(LoadRows, MaxLoadRows)}

(***************************************************************************)
(* load_data, step by step: one action per connector call.                 *)
(***************************************************************************)
NoSelector == [mode |-> "none"]

NoSidebar == [signal |-> "none", count |-> 0, total |-> 0]

NoAnalysis == [type |-> "none"]

NoView == [kind |-> "none"]

RenderUnchanged == UNCHANGED <<selector, filtered, sidebar, analysis, view, outcome>>

\* a load_data that falls through to "return df" where it should return the
\* empty frame
ReturnFrame ==
    /\ pc' = "loaded"
    /\ df' = [i \in 1..Len(raw.rows) |-> NormalizeRow(raw.rows[i])]

\* load_data returns pd.DataFrame()
ReturnEmpty == pc' = "loaded" /\ df' = <<>>

\* src/app.py:37-39 with connect() of either connector
Connect ==
    /\ pc = "start"
    /\ attempted' = Append(attempted, "connect")
    /\ \E ok \in BOOLEAN :
          IF ok THEN pc' = "connected" /\ UNCHANGED df ELSE ReturnEmpty
    /\ UNCHANGED <<sheet, raw>>
    /\ RenderUnchanged

\* src/app.py:54
OpenSpreadsheet ==
    /\ pc = "connected"
    /\ attempted' = Append(attempted, "open_spreadsheet")
    /\ \E ok \in BOOLEAN :
          IF ok THEN pc' = "opened" /\ UNCHANGED df ELSE ReturnEmpty
    /\ UNCHANGED <<sheet, raw>>
    /\ RenderUnchanged

\* src/app.py:55
SelectWorksheet ==
    /\ pc = "opened"
    /\ attempted' = Append(attempted, "select_worksheet")
    /\ \E ok \in BOOLEAN :
          IF ok THEN pc' = "selected" /\ UNCHANGED df ELSE ReturnEmpty
    /\ UNCHANGED <<sheet, raw>>
    /\ RenderUnchanged

\* src/app.py:56: get_data_as_dataframe returns the sheet's records, or an
\* empty frame when the request fails
GetData ==
    /\ pc = "selected"
    /\ attempted' = Append(attempted, "get_data_as_dataframe")
    /\ \E ok \in BOOLEAN : raw' = IF ok THEN sheet ELSE EmptyFrame
    /\ pc' = "fetched"
    /\ UNCHANGED <<sheet, df>>
    /\ RenderUnchanged

\* src/app.py:58-76: the column check and the normalization of the batch
Normalize ==
    /\ pc = "fetched"
    /\ IF FrameEmpty(raw) \/ raw.ncols < MinCols
       THEN ReturnEmpty
       ELSE IF raw.ncols # MinCols
            THEN \* df.columns = [4 names] on a wider frame: ValueError
                 pc' = "raised" /\ UNCHANGED df
            ELSE /\ pc' = "loaded"
                 /\ df' = [i \in 1..Len(raw.rows) |-> NormalizeRow(raw.rows[i])]
    /\ outcome' = IF pc' = "raised" THEN "raised" ELSE outcome
    /\ UNCHANGED <<sheet, raw, attempted, selector, filtered, sidebar, analysis, view>>

\* src/app.py:557-559: main on an empty collection
MainEmpty ==
    /\ pc = "loaded"
    /\ df = <<>>
    /\ pc' = "done"
    /\ outcome' = "load_error"
    /\ UNCHANGED <<sheet, raw, attempted, df, selector, filtered, sidebar, analysis, view>>

(***************************************************************************)
(* Helpers over a collection of records (a sequence, in sheet order).      *)
(***************************************************************************)
Range(f) == {f[i] : i \in DOMAIN f}

\* df[mask]: the records selected by the mask, in their original order
Mask(recs, keep) == SelectSeq(recs, LAMBDA r : r \in keep)

\* sorted(S) for a set of strings
RECURSIVE SortStrs(_)
SortStrs(S) ==
    IF S = {} THEN <<>>
    ELSE LET m == CHOOSE m \in S : \A x \in S : StrLE(m, x)
         IN <<m>> \o SortStrs(S \ {m})

\* sorted(df['nengetsu'].unique())
AvailableMonths(recs) == SortStrs({recs[i].nengetsu : i \in DOMAIN recs})

\* f"{month[:4]}nen{month[4:6]}gatsu"
Display(month) ==
    Prefix(month, YearEnd) \o <<"nen">> \o Slice(month, YearEnd, KeyWidth) \o <<"gatsu">>

\* Series.sum(): missing amounts are skipped, the empty sum is 0
RECURSIVE SumAmt(_)
SumAmt(recs) ==
    IF recs = <<>> THEN 0
    ELSE (IF Head(recs).kingaku.nan THEN 0 ELSE Head(recs).kingaku.v) + SumAmt(Tail(recs))

\* Series.count(): the number of amounts that are not missing
CountAmt(recs) == Cardinality({i \in DOMAIN recs : ~recs[i].kingaku.nan})

\* an exact quotient n/d (d > 0), or NaN
Frac(n, d) == [nan |-> FALSE, n |-> n, d |-> d]

NaNF == [nan |-> TRUE, n |-> 0, d |-> 1]

FracEq(x, y) == x.nan = y.nan /\ (~x.nan => x.n * y.d = y.n * x.d)

\* x - y on floats: NaN if either is
FracSub(x, y) ==
    IF x.nan \/ y.nan THEN NaNF ELSE Frac(x.n * y.d - y.n * x.d, x.d * y.d)

\* x > 0 on floats: False for NaN
FracPos(x) == ~x.nan /\ x.n > 0

\* (x / y) * 100 for y > 0
FracPct(x, y) == IF x.nan \/ y.nan THEN NaNF ELSE Frac(x.n * y.d * 100, x.d * y.n)

\* Series.mean(): the mean of the amounts that are not missing, NaN if none
MeanAmt(recs) ==
    IF CountAmt(recs) = 0 THEN NaNF ELSE Frac(SumAmt(recs), CountAmt(recs))

\* round(n / d, 2) as a number of hundredths, ties to even (numpy.round)
RoundHundredths(n, d) ==
    LET q == (n * 100) \div d
        r == (n * 100) % d
    IN IF 2 * r < d THEN q
       ELSE IF 2 * r > d THEN q + 1
       ELSE IF q % 2 = 0 THEN q ELSE q + 1

\* .round(2) of a mean
Round2(x) == IF x.nan THEN [nan |-> TRUE, c |-> 0]
             ELSE [nan |-> FALSE, c |-> RoundHundredths(x.n, x.d)]

\* .agg({'kingaku': ['sum', 'count', 'mean']}).round(2) of one group
AggSumCountMean(recs) ==
    [total |-> SumAmt(recs), count |-> CountAmt(recs), mean |-> Round2(MeanAmt(recs))]

\* The orders in which equal keys may fall.  Neither quicksort nor the
\* iteration order of a Python set fixes the order of equal elements; the
\* model lets them fall in ascending or in descending label order.
TieBreaks == {"ascending", "descending"}

\* the set S of labels listed by descending key[x], equal keys ordered by tb
RECURSIVE SortDesc(_, _, _)
SortDesc(S, key, tb) ==
    IF S = {} THEN <<>>
    ELSE LET top == {x \in S : \A y \in S : key[y] <= key[x]}
             m == IF tb = "ascending"
                  THEN CHOOSE x \in top : \A y \in top : StrLE(x, y)
                  ELSE CHOOSE x \in top : \A y \in top : StrLE(y, x)
         IN <<m>> \o SortDesc(S \ {m}, key, tb)

\* the sequences .sort_values(ascending=False) may give
DescOrders(S, key) == {SortDesc(S, key, tb) : tb \in TieBreaks}

Abs(x) == IF x < 0 THEN -x ELSE x

(***************************************************************************)
(* create_period_selector                                                  *)
(***************************************************************************)
SelInput(mode, a, b) == [mode |-> mode, a |-> a, b |-> b]

\* the calendar days of the timestamps that are not missing
Days(recs) == {recs[i].nichiji.day : i \in {j \in DOMAIN recs : ~recs[j].nichiji.nat}}

\* what the widgets of the selector let the user choose: the radio, two
\* selectboxes over range(len(available_months)), two date inputs bounded by
\* the earliest and latest date, a slider from 1 to len(available_months)
SelectorInputs(d) ==
    LET n == Len(AvailableMonths(d))
        days == Days(d)
    IN {SelInput("all", 0, 0)}
       \cup {SelInput("ym_range", s, e) : s \in 0..(n - 1), e \in 0..(n - 1)}
       \cup (IF days = {} THEN {SelInput("date_range", 0, 0)}
             ELSE {SelInput("date_range", s, e) :
                      s \in SetMin(days)..SetMax(days), e \in SetMin(days)..SetMax(days)})
       \cup {SelInput("recent", k, 0) : k \in 1..n}

SelResult(f, signal) == [filtered |-> f, signal |-> signal, raised |-> FALSE]

SelRaised == [filtered |-> <<>>, signal |-> "none", raised |-> TRUE]

\* df[(df['nengetsu'] >= start_month) & (df['nengetsu'] <= end_month)]
YmRangeFilter(d, start_month, end_month) ==
    Mask(d, {r \in Range(d) : StrLE(start_month, r.nengetsu) /\ StrLE(r.nengetsu, end_month)})

\* a filter that compares the timestamps with midnight of the bound dates
DateRangeFilterMidnight(d, start_date, end_date) ==
    Mask(d, {r \in Range(d) : /\ ~r.nichiji.nat
                              /\ (start_date < r.nichiji.day \/ (start_date = r.nichiji.day /\ 0 <= r.nichiji.sec))
                              /\ (r.nichiji.day < end_date \/ (r.nichiji.day = end_date /\ r.nichiji.sec <= 0))})

\* df[(df['nichiji'].dt.date >= start_date) & (df['nichiji'].dt.date <= end_date)]:
\* a comparison with a missing date is False
DateRangeFilter(d, start_date, end_date) ==
    Mask(d, {r \in Range(d) : ~r.nichiji.nat /\ start_date <= r.nichiji.day /\ r.nichiji.day <= end_date})

\* a recent-N filter that slices the sorted keys from the front
RecentFilterOldest(d, n_months) ==
    LET am == AvailableMonths(d)
        oldest == {am[i] : i \in 1..n_months}
    IN Mask(d, {r \in Range(d) : r.nengetsu \in oldest})

\* df[df['nengetsu'].isin(available_months[-n_months:])]
RecentFilter(d, n_months) ==
    LET am == AvailableMonths(d)
        recent == {am[i] : i \in (Len(am) - n_months + 1)..Len(am)}
    IN Mask(d, {r \in Range(d) : r.nengetsu \in recent})

\* a selector that applies the range filters without comparing the bounds
create_period_selector_unchecked(d, sel) ==
    LET am == AvailableMonths(d)
    IN IF sel.mode = "all" THEN {SelResult(d, "info")}
       ELSE IF sel.mode = "ym_range"
       THEN {SelResult(YmRangeFilter(d, am[sel.a + 1], am[sel.b + 1]), "success")}
       ELSE IF sel.mode = "date_range"
       THEN IF Days(d) = {} THEN {SelRaised, SelResult(<<>>, "success")}
            ELSE {SelResult(DateRangeFilter(d, sel.a, sel.b), "success")}
       ELSE {SelResult(RecentFilter(d, sel.a), "success")}

\* the outcomes of create_period_selector(df) for one choice of the widgets.
\* When every timestamp is missing, min_date and max_date are NaT and what
\* st.date_input does with them is not decided by this repository: either it
\* raises, or it yields dates no record matches.
create_period_selector(d, sel) ==
    LET am == AvailableMonths(d)
    IN IF sel.mode = "all" THEN {SelResult(d, "info")}
       ELSE IF sel.mode = "ym_range"
       THEN IF sel.a <= sel.b
            THEN {SelResult(YmRangeFilter(d, am[sel.a + 1], am[sel.b + 1]), "success")}
            ELSE {SelResult(d, "error")}
       ELSE IF sel.mode = "date_range"
       THEN IF Days(d) = {} THEN {SelRaised, SelResult(<<>>, "success")}
            ELSE IF sel.a <= sel.b
                 THEN {SelResult(DateRangeFilter(d, sel.a, sel.b), "success")}
                 ELSE {SelResult(d, "error")}
       ELSE {SelResult(RecentFilter(d, sel.a), "success")}

\* src/app.py:572-573: NaT.strftime raises when no record of the filtered
\* collection has a timestamp
SummaryRaises(f) == f # <<>> /\ Days(f) = {}

(***************************************************************************)
(* The analyses.                                                           *)
(***************************************************************************)
AnInput(type, term, as, ae, bs, be) ==
    [type |-> type, term |-> term, a_start |-> as, a_end |-> ae, b_start |-> bs, b_end |-> be]

\* the search terms the user may type
Terms == {<<>>, <<"f", "o">>, <<"F", "o">>, <<"b">>, <<".">>, <<"(">>}

\* the analysis selectbox and the widgets of the chosen analysis
AnalysisInputs(d) ==
    LET n == Len(AvailableMonths(d))
    IN {AnInput(t, <<>>, 0, 0, 0, 0) : t \in {"monthly", "category", "time"}}
       \cup {AnInput("search", term, 0, 0, 0, 0) : term \in Terms}
       \cup (IF n < 2 THEN {AnInput("cmp", <<>>, 0, 0, 0, 0)}
             ELSE {AnInput("cmp", <<>>, as, ae, bs, be) :
                      as \in 0..(n - 1), ae \in 0..(n - 1),
                      bs \in 0..(n - 1), be \in 0..(n - 1)})

Result(v, o) == [view |-> v, outcome |-> o]

\* "if df.empty: st.error(...); return" of every analysis
EmptyState == Result(NoView, "empty")

\* df.groupby(['nengetsu', 'hyouji']).agg(...).round(2), sorted by nengetsu
MonthlySummary(f) ==
    LET am == AvailableMonths(f)
    IN [i \in 1..Len(am) |->
          LET g == Mask(f, {r \in Range(f) : r.nengetsu = am[i]})
              agg == AggSumCountMean(g)
          IN [nengetsu |-> am[i], hyouji |-> g[1].hyouji,
              total |-> agg.total, count |-> agg.count, mean |-> agg.mean]]

create_monthly_analysis(f) ==
    IF f = <<>> THEN {EmptyState}
    ELSE {Result([kind |-> "monthly", rows |-> MonthlySummary(f)], "view")}

Categories(f) == {f[i].koumoku : i \in DOMAIN f}

\* df.groupby('koumoku')['kingaku'].sum()
CategoryTotals(f) ==
    [c \in Categories(f) |-> SumAmt(Mask(f, {r \in Range(f) : r.koumoku = c}))]

\* df.groupby('koumoku').agg(...).round(2) sorted by descending total
CategorySummaries(f) ==
    {[i \in 1..Len(o) |->
        LET agg == AggSumCountMean(Mask(f, {r \in Range(f) : r.koumoku = o[i]}))
        IN [koumoku |-> o[i], total |-> agg.total, count |-> agg.count, mean |-> agg.mean]] :
     o \in DescOrders(Categories(f), CategoryTotals(f))}

create_category_analysis(f) ==
    IF f = <<>> THEN {EmptyState}
    ELSE {Result([kind |-> "category", rows |-> rows], "view") : rows \in CategorySummaries(f)}

\* re.IGNORECASE on the letters of the alphabet
Lower(c) == IF c = "F" THEN "f" ELSE c

\* re.compile(term) fails on an unbalanced parenthesis
RegexCompiles(term) == \A i \in 1..Len(term) : term[i] # "("

\* one pattern character against one character of the label
CharMatches(p, c) == p = "." \/ Lower(p) = Lower(c)

\* re.search(term, label, re.IGNORECASE) for a pattern that compiles
Contains(label, term) ==
    \E o \in 0..(Len(label) - Len(term)) :
        \A j \in 1..Len(term) : CharMatches(term[j], label[o + j])

create_search_analysis(f, term) ==
    IF f = <<>> THEN {EmptyState}
    ELSE IF term = <<>> THEN {Result(NoView, "no_query")}
    ELSE IF ~RegexCompiles(term) THEN {Result(NoView, "raised")}
    ELSE LET hits == Mask(f, {r \in Range(f) : Contains(r.koumoku, term)})
         IN IF hits # <<>>
            THEN {Result([kind |-> "search", rows |-> hits, total |-> SumAmt(hits),
                          count |-> Len(hits), mean |-> MeanAmt(hits)], "view")}
            ELSE {Result(NoView, "no_match")}

\* df.groupby('nengappi')['kingaku'].sum(): records without a date are dropped
create_time_analysis(f) ==
    IF f = <<>> THEN {EmptyState}
    ELSE {Result([kind |-> "time",
                  daily |-> [day \in Days(f) |->
                               SumAmt(Mask(f, {r \in Range(f) : ~r.nichiji.nat /\ r.nichiji.day = day}))]],
                 "view")}

(***************************************************************************)
(* create_period_comparison                                                *)
(***************************************************************************)
TopN == 10

MinMonths == 2

\* a percentage change guarded by a != 0 in place of a > 0
PctChangeNonZero(a, b) ==
    IF ~a.nan /\ a.n # 0 THEN FracPct(FracSub(b, a), a) ELSE Frac(0, 1)

\* ((b - a) / a * 100) if a > 0 else 0
PctChange(a, b) == IF FracPos(a) THEN FracPct(FracSub(b, a), a) ELSE Frac(0, 1)

\* a ranking that forgets .head(10)
AllCategories(f) == {Categories(f)}

\* the index sets .sort_values(ascending=False).head(10) can keep
TopCategories(f) ==
    {Range(Prefix(o, TopN)) : o \in DescOrders(Categories(f), CategoryTotals(f))}

\* a slice that leaves out the end month: available_months[start_idx:end_idx]
MonthsSliceExclusive(d, start_idx, end_idx) ==
    LET am == AvailableMonths(d)
        months == {am[i] : i \in (start_idx + 1)..end_idx}
    IN Mask(d, {r \in Range(d) : r.nengetsu \in months})

\* df[df['nengetsu'].isin(available_months[start_idx:end_idx+1])]
MonthsSlice(d, start_idx, end_idx) ==
    LET am == AvailableMonths(d)
        months == {am[i] : i \in (start_idx + 1)..(end_idx + 1)}
    IN Mask(d, {r \in Range(d) : r.nengetsu \in months})

\* the comparison table for the chosen top categories of each side: one row
\* per common category, by descending abs(sagaku)
ComparisonTables(df_a, df_b, top_a, top_b) ==
    LET cat_a == CategoryTotals(df_a)
        cat_b == CategoryTotals(df_b)
        common_items == top_a \cap top_b
        sagaku == [c \in common_items |-> cat_b[c] - cat_a[c]]
    IN {[i \in 1..Len(o) |->
           [koumoku |-> o[i], a |-> cat_a[o[i]], b |-> cat_b[o[i]], sagaku |-> sagaku[o[i]]]] :
        o \in DescOrders(common_items, [c \in common_items |-> Abs(sagaku[c])])}

\* src/app.py:430-501 for the chosen top categories of each side
Comparison(df_a, df_b, top_a, top_b) ==
    LET total_a == SumAmt(df_a)
        total_b == SumAmt(df_b)
        avg_a == MeanAmt(df_a)
        avg_b == MeanAmt(df_b)
        count_a == Len(df_a)
        count_b == Len(df_b)
    IN {Result([kind |-> "cmp",
                df_a |-> df_a, df_b |-> df_b,
                total_a |-> total_a, total_b |-> total_b,
                diff |-> total_b - total_a,
                diff_pct |-> PctChange(Frac(total_a, 1), Frac(total_b, 1)),
                avg_a |-> avg_a, avg_b |-> avg_b,
                avg_diff |-> FracSub(avg_b, avg_a),
                avg_diff_pct |-> PctChange(avg_a, avg_b),
                count_a |-> count_a, count_b |-> count_b,
                count_diff |-> count_b - count_a,
                count_diff_pct |-> PctChange(Frac(count_a, 1), Frac(count_b, 1)),
                top_a |-> top_a, top_b |-> top_b,
                table |-> table,
                info |-> (top_a \cap top_b = {})], "view") :
           table \in ComparisonTables(df_a, df_b, top_a, top_b)}

create_period_comparison(d, an) ==
    IF d = <<>> THEN {EmptyState}
    ELSE IF Len(AvailableMonths(d)) < MinMonths THEN {Result(NoView, "insufficient")}
    ELSE IF an.a_start <= an.a_end /\ an.b_start <= an.b_end
    THEN LET df_a == MonthsSlice(d, an.a_start, an.a_end)
             df_b == MonthsSlice(d, an.b_start, an.b_end)
         IN UNION {Comparison(df_a, df_b, top_a, top_b) :
                      top_a \in TopCategories(df_a), top_b \in TopCategories(df_b)}
    ELSE {Result(NoView, "ordering_error")}

(***************************************************************************)
(* main, after load_data has returned a collection that is not empty.      *)
(***************************************************************************)
\* a dispatch that hands filtered_df to the comparison too
RunAnalysisOnFiltered(an, f, d) ==
    IF an.type = "monthly" THEN create_monthly_analysis(f)
    ELSE IF an.type = "category" THEN create_category_analysis(f)
    ELSE IF an.type = "search" THEN create_search_analysis(f, an.term)
    ELSE IF an.type = "time" THEN create_time_analysis(f)
    ELSE create_period_comparison(f, an)

\* src/app.py:596-606: the comparison gets df, the others filtered_df
RunAnalysis(an, f, d) ==
    IF an.type = "monthly" THEN create_monthly_analysis(f)
    ELSE IF an.type = "category" THEN create_category_analysis(f)
    ELSE IF an.type = "search" THEN create_search_analysis(f, an.term)
    ELSE IF an.type = "time" THEN create_time_analysis(f)
    ELSE create_period_comparison(d, an)

Raise ==
    /\ pc' = "raised"
    /\ outcome' = "raised"

\* src/app.py:561-606: one render pass over a loaded collection
Render ==
    /\ pc = "loaded"
    /\ df # <<>>
    /\ \E sel \in SelectorInputs(df) : \E sr \in create_period_selector(df, sel) :
          /\ selector' = sel
          /\ IF sr.raised
             THEN /\ Raise
                  /\ UNCHANGED <<filtered, sidebar, analysis, view>>
             ELSE /\ filtered' = sr.filtered
                  /\ IF SummaryRaises(sr.filtered)
                     THEN /\ Raise
                          /\ sidebar' = [signal |-> sr.signal, count |-> Len(sr.filtered),
                                         total |-> SumAmt(sr.filtered)]
                          /\ UNCHANGED <<analysis, view>>
                     ELSE /\ sidebar' = [signal |-> sr.signal, count |-> Len(sr.filtered),
                                         total |-> SumAmt(sr.filtered)]
                          /\ \E an \in AnalysisInputs(df) : \E res \in RunAnalysis(an, sr.filtered, df) :
                                /\ analysis' = an
                                /\ view' = res.view
                                /\ outcome' = res.outcome
                                /\ pc' = IF res.outcome = "raised" THEN "raised" ELSE "done"
    /\ UNCHANGED <<sheet, raw, attempted, df>>

(***************************************************************************)
(* The spreadsheets of the main specification.                             *)
(***************************************************************************)
Rows ==
    {RawRow(c, a, t, p) :
        c \in {Food, Transit},
        a \in {IntCell(300), IntCell(-300), StrCell(<<"a", "b">>)},
        t \in {IsoCell(1, 0), BadTs},
        p \in {IntCell(202311), IntCell(202312)}}

\* the scenario of the specification's section 8
ExampleRows ==
    <<RawRow(Food, IntCell(1000), IsoCell(1, 0), IntCell(202311)),
      RawRow(Food, StrCell(<<"5", "0", "0">>), IsoCell(2, 0), IntCell(202311)),
      RawRow(Transit, IntCell(300), IsoCell(3, 0), IntCell(202312))>>

\* Spreadsheets with more categories than the comparison table keeps: every
\* category has one record in each of two months; category la has the least
\* amount of the first month and lb of the second.
NCats == 11

CatName(i) == IntToStr(i)

ManyCategoryRows(la, lb) ==
    [i \in 1..NCats |->
        RawRow(CatName(i), IntCell(IF i = la THEN 1 ELSE 100 + i), IsoCell(1, 0), IntCell(202311))]
    \o [i \in 1..NCats |->
        RawRow(CatName(i), IntCell(IF i = lb THEN 1 ELSE 100 + 10 * i), IsoCell(2, 0), IntCell(202312))]

FewCategoryRows ==
    {RawRow(c, a, IsoCell(1, 0), p) :
        c \in {Food, Transit},
        a \in {IntCell(300), IntCell(500), StrCell(<<"a", "b">>)},
        p \in {IntCell(202311), IntCell(202312)}}

CmpSheets ==
    {[ncols |-> MinCols, rows |-> ManyCategoryRows(la, lb)] : la \in 1..NCats, lb \in {1, NCats}}
    \cup {[ncols |-> MinCols, rows |-> rs] : rs \in SeqsUpTo(FewCategoryRows, MaxRows)}

Sheets ==
    {[ncols |-> MinCols, rows |-> rs] : rs \in SeqsUpTo(Rows, MaxRows)}
    \cup {[ncols |-> n, rows |-> ExampleRows] : n \in (MinCols - 1)..(MinCols + 1)}

\* Spreadsheets for the period selector: three records of one category whose
\* period keys cross a year end and whose timestamps fall on two days, one of
\* them after midnight, or do not parse; in every sheet order.
SelRows ==
    {RawRow(Food, IntCell(300), t, p) :
        t \in {IsoCell(1, 0), IsoCell(3, 1), BadTs},
        p \in {IntCell(202311), IntCell(202312), IntCell(202401)}}

SelSheets ==
    {[ncols |-> MinCols, rows |-> rs] :
        rs \in {<<>>} \cup {<<r1, r2, r3>> : r1 \in SelRows, r2 \in SelRows, r3 \in SelRows}}

InitCommon ==
    /\ pc = "start"
    /\ attempted = <<>>
    /\ raw = EmptyFrame
    /\ df = <<>>
    /\ selector = NoSelector
    /\ filtered = <<>>
    /\ sidebar = NoSidebar
    /\ analysis = NoAnalysis
    /\ view = NoView
    /\ outcome = "none"

InitLoad == sheet \in LoadSheets /\ InitCommon

NextLoad == Connect \/ OpenSpreadsheet \/ SelectWorksheet \/ GetData \/ Normalize \/ MainEmpty

SpecLoad == InitLoad /\ [][NextLoad]_vars

Init == sheet \in Sheets /\ InitCommon

InitCmp == sheet \in CmpSheets /\ InitCommon

InitSel == sheet \in SelSheets /\ InitCommon

Next == Connect \/ OpenSpreadsheet \/ SelectWorksheet \/ GetData \/ Normalize \/ MainEmpty \/ Render

Spec == Init /\ [][Next]_vars

SpecCmp == InitCmp /\ [][Next]_vars

SpecSel == InitSel /\ [][Next]_vars

(***************************************************************************)
(* Reference definitions the properties are stated with.                   *)
(***************************************************************************)
\* the positions of the records of g whose amount is not missing
Contributing(g) == {i \in DOMAIN g : ~g[i].kingaku.nan}

\* the sum of the amounts of g at the positions S
RECURSIVE AmountsAt(_, _)
AmountsAt(g, S) ==
    IF S = {} THEN 0
    ELSE LET i == CHOOSE j \in S : TRUE
         IN g[i].kingaku.v + AmountsAt(g, S \ {i})

\* total and count of an aggregate over the records g
TotalCountOf(g, total, count) ==
    /\ total = AmountsAt(g, Contributing(g))
    /\ count = Cardinality(Contributing(g))

\* the four calls of load_data, in order
LoadOrder == <<"connect", "open_spreadsheet", "select_worksheet", "get_data_as_dataframe">>

\* the load failed at a connector call, or fetched an unusable batch
LoadFailed ==
    \/ Len(attempted) < Len(LoadOrder)
    \/ FrameEmpty(raw)
    \/ raw.ncols < MinCols

\* load_data has run the column check on the fetched batch
Normalized == pc \in {"loaded", "done", "raised"} /\ Len(attempted) = Len(LoadOrder)

(***************************************************************************)
(* C1: in the monthly, category and comparison aggregates, total is the    *)
(* sum of the non-missing amounts of the contributing records, count the   *)
(* number of records whose amount is not missing, and mean is total/count  *)
(* (for the summaries, to the 2 decimals they are rounded to).             *)
(***************************************************************************)
C1_AggregatesSkipMissing ==
    /\ view.kind = "monthly" =>
          \A k \in DOMAIN view.rows :
             LET row == view.rows[k]
                 g == Mask(filtered, {r \in Range(filtered) : r.nengetsu = row.nengetsu /\ r.hyouji = row.hyouji})
             IN /\ TotalCountOf(g, row.total, row.count)
                /\ row.count > 0 =>
                      ~row.mean.nan /\ row.mean.c = RoundHundredths(row.total, row.count)
    /\ view.kind = "category" =>
          \A k \in DOMAIN view.rows :
             LET row == view.rows[k]
                 g == Mask(filtered, {r \in Range(filtered) : r.koumoku = row.koumoku})
             IN /\ TotalCountOf(g, row.total, row.count)
                /\ row.count > 0 =>
                      ~row.mean.nan /\ row.mean.c = RoundHundredths(row.total, row.count)
    /\ view.kind = "cmp" =>
          /\ TotalCountOf(view.df_a, view.total_a, view.count_a)
          /\ TotalCountOf(view.df_b, view.total_b, view.count_b)
          /\ view.count_a > 0 => FracEq(view.avg_a, Frac(view.total_a, view.count_a))
          /\ view.count_b > 0 => FracEq(view.avg_b, Frac(view.total_b, view.count_b))

(***************************************************************************)
(* C2: every row of the monthly and category summaries has count > 0 and   *)
(* mean = total/count rounded to 2 decimals; no row has count = 0.         *)
(***************************************************************************)
C2_NoRowWithoutCount ==
    view.kind \in {"monthly", "category"} =>
       \A k \in DOMAIN view.rows :
          /\ view.rows[k].count > 0
          /\ ~view.rows[k].mean.nan
          /\ view.rows[k].mean.c = RoundHundredths(view.rows[k].total, view.rows[k].count)

(***************************************************************************)
(* C3: after load_data every record's period key is exactly 6 digits, its  *)
(* year the first 4 characters, its month the last 2, and its display      *)
(* label year + nen + month + gatsu.                                       *)
(***************************************************************************)
C3_PeriodKeySixDigits ==
    \A i \in DOMAIN df :
       LET key == df[i].nengetsu
       IN /\ Len(key) = KeyWidth
          /\ \A j \in DOMAIN key : IsDigit(key[j])
          /\ df[i].nen = SubSeq(key, 1, YearEnd)
          /\ df[i].tsuki = SubSeq(key, Len(key) - 1, Len(key))
          /\ df[i].hyouji = df[i].nen \o <<"nen">> \o df[i].tsuki \o <<"gatsu">>

(***************************************************************************)
(* C4: for a non-empty fetched batch of 4 or more columns load_data does   *)
(* not raise and returns one record per source row, in order, whose amount *)
(* and timestamp are missing exactly where the coercion failed.            *)
(***************************************************************************)
C4_OneRecordPerRow ==
    (Normalized /\ ~FrameEmpty(raw) /\ raw.ncols >= MinCols) =>
       /\ pc # "raised" \/ df # <<>>
       /\ Len(df) = Len(raw.rows)
       /\ \A i \in DOMAIN df :
             /\ df[i].koumoku = raw.rows[i].cat
             /\ df[i].kingaku = ToNumeric(raw.rows[i].amt)
             /\ df[i].nichiji = ToDatetime(raw.rows[i].ts)

(***************************************************************************)
(* C5: load_data is fail-closed.  The connector calls are made in order,   *)
(* each only after the earlier ones succeeded; when a call fails or the    *)
(* batch is empty or has fewer than 4 columns, load_data returns the empty *)
(* collection without raising, and main then shows the load error and runs *)
(* neither the period selector nor an analysis.                            *)
(***************************************************************************)
C5_FailClosed ==
    /\ attempted = SubSeq(LoadOrder, 1, Len(attempted))
    /\ (pc \in {"loaded", "done", "raised"} /\ LoadFailed) =>
          /\ df = <<>>
          /\ pc # "raised"
          /\ selector = NoSelector /\ analysis = NoAnalysis /\ view = NoView
          /\ filtered = <<>> /\ sidebar = NoSidebar
          /\ pc = "done" => outcome = "load_error"
    /\ outcome = "load_error" => df = <<>>

\* main has rendered the load error for a fetched batch of 3 columns
C5_Witness ==
    /\ pc = "done"
    /\ outcome = "load_error"
    /\ Len(attempted) = Len(LoadOrder)
    /\ ~FrameEmpty(raw)
    /\ raw.ncols < MinCols

(***************************************************************************)
(* C6: a render pass of main over a loaded collection that is not empty    *)
(* never ends in a raised fault.                                           *)
(***************************************************************************)
C6_NeverRaises == df # <<>> => (pc # "raised" /\ outcome # "raised")

(***************************************************************************)
(* C7: the scalar comparison of total, mean and count.                     *)
(***************************************************************************)
\* the three compared aggregates: A, B, the delta and the percentage shown
Metrics ==
    {[a |-> Frac(view.total_a, 1), b |-> Frac(view.total_b, 1),
      delta |-> Frac(view.diff, 1), pct |-> view.diff_pct],
     [a |-> view.avg_a, b |-> view.avg_b,
      delta |-> view.avg_diff, pct |-> view.avg_diff_pct],
     [a |-> Frac(view.count_a, 1), b |-> Frac(view.count_b, 1),
      delta |-> Frac(view.count_diff, 1), pct |-> view.count_diff_pct]}

\* delta = B - A, missing when A or B is
DeltaIsBMinusA(m) ==
    IF m.a.nan \/ m.b.nan THEN m.delta.nan
    ELSE ~m.delta.nan /\ m.delta.n * m.a.d * m.b.d = (m.b.n * m.a.d - m.a.n * m.b.d) * m.delta.d

\* pct = (B - A) / A * 100, missing when A or B is
PctIsRelativeChange(m) ==
    IF m.a.nan \/ m.b.nan THEN m.pct.nan
    ELSE /\ ~m.pct.nan
         /\ m.pct.n * m.a.n * m.b.d = 100 * (m.b.n * m.a.d - m.a.n * m.b.d) * m.pct.d

PctIsZero(m) == ~m.pct.nan /\ m.pct.n = 0

\* C7 as stated: delta = B - A, and the percentage is (B - A) / A * 100
\* unless A = 0, where it is 0.
C7_PercentZeroOnlyAtZero ==
    view.kind = "cmp" =>
       \A m \in Metrics :
          /\ DeltaIsBMinusA(m)
          /\ IF ~m.a.nan /\ m.a.n = 0 THEN PctIsZero(m) ELSE PctIsRelativeChange(m)

\* C7 as amended: delta = B - A, and the percentage is (B - A) / A * 100
\* when A > 0, and 0 whenever A is 0, negative or missing.
C7_PercentZeroUnlessPositive ==
    view.kind = "cmp" =>
       \A m \in Metrics :
          /\ DeltaIsBMinusA(m)
          /\ IF ~m.a.nan /\ m.a.n > 0 THEN PctIsRelativeChange(m) ELSE PctIsZero(m)

\* the scenario: total 1500 against 300 gives -1200 and -80.0 percent
C7_Witness ==
    /\ view.kind = "cmp"
    /\ view.total_a = 1500 /\ view.total_b = 300
    /\ view.diff = -1200
    /\ FracEq(view.diff_pct, Frac(-80, 1))

(***************************************************************************)
(* C8: the per-category table of the comparison.                           *)
(***************************************************************************)
CategoriesOf(g) == {g[i].koumoku : i \in DOMAIN g}

\* the total of category c over the records g
TotalOf(g, c) == AmountsAt(g, {i \in Contributing(g) : g[i].koumoku = c})

\* T holds the 10 largest category totals of g (all of them if fewer)
IsTopTen(g, T) ==
    /\ T \subseteq CategoriesOf(g)
    /\ Cardinality(T) = (IF Cardinality(CategoriesOf(g)) < 10
                         THEN Cardinality(CategoriesOf(g)) ELSE 10)
    /\ \A x \in T : \A y \in CategoriesOf(g) \ T : TotalOf(g, y) <= TotalOf(g, x)

\* C8: the table has a row for exactly the categories among the 10 largest
\* totals of A and among the 10 largest of B, each with delta = total in B
\* minus total in A, by descending abs(delta); an empty table is signalled
\* as information within a rendered view.
C8_CommonTopCategories ==
    view.kind = "cmp" =>
       /\ IsTopTen(view.df_a, view.top_a)
       /\ IsTopTen(view.df_b, view.top_b)
       /\ {view.table[i].koumoku : i \in DOMAIN view.table} = view.top_a \cap view.top_b
       /\ Len(view.table) = Cardinality(view.top_a \cap view.top_b)
       /\ \A i \in DOMAIN view.table :
             view.table[i].sagaku = TotalOf(view.df_b, view.table[i].koumoku)
                                    - TotalOf(view.df_a, view.table[i].koumoku)
       /\ \A i \in DOMAIN view.table : \A j \in DOMAIN view.table :
             i < j => Abs(view.table[j].sagaku) <= Abs(view.table[i].sagaku)
       /\ view.info <=> view.table = <<>>
       /\ outcome = "view" /\ pc = "done"

\* a category present in both ranges is left out of the table because it is
\* not among the 10 largest of A
C8_Witness ==
    /\ view.kind = "cmp"
    /\ Cardinality(CategoriesOf(view.df_a)) > 10
    /\ view.table # <<>>
    /\ \E c \in CategoriesOf(view.df_a) \cap view.top_b : c \notin view.top_a

(***************************************************************************)
(* C9: an inverted range.  The period selector (period-key range or date   *)
(* range) returns the unfiltered collection and signals the ordering       *)
(* error; the comparison signals the ordering error and computes nothing.  *)
(***************************************************************************)
C9_InvertedRangeRejected ==
    /\ (selector.mode \in {"ym_range", "date_range"} /\ selector.a > selector.b) =>
          /\ filtered = df
          /\ sidebar.signal = "error"
    /\ (/\ analysis.type = "cmp"
        /\ Cardinality({df[i].nengetsu : i \in DOMAIN df}) >= 2
        /\ (analysis.a_start > analysis.a_end \/ analysis.b_start > analysis.b_end)) =>
          /\ outcome = "ordering_error"
          /\ view = NoView
          /\ pc = "done"

\* both the selector and the comparison were given an inverted range
C9_Witness ==
    /\ selector.mode = "ym_range"
    /\ selector.a > selector.b
    /\ analysis.type = "cmp"
    /\ analysis.b_start > analysis.b_end
    /\ outcome = "ordering_error"

(***************************************************************************)
(* C10: with fewer than 2 distinct period keys in the whole collection the *)
(* comparison signals insufficient data and computes nothing; with 2 or    *)
(* more it never signals insufficient data.                                *)
(***************************************************************************)
C10_InsufficientData ==
    analysis.type = "cmp" =>
       IF Cardinality({df[i].nengetsu : i \in DOMAIN df}) < 2
       THEN outcome = "insufficient" /\ view = NoView /\ pc = "done"
       ELSE outcome \in {"view", "ordering_error"}

\* two records of one month: the comparison reports insufficient data
C10_Witness ==
    /\ analysis.type = "cmp"
    /\ Len(df) >= 2
    /\ outcome = "insufficient"

(***************************************************************************)
(* C11: the most-recent-N-periods filter returns exactly the records whose *)
(* period key is one of the N chronologically latest distinct period keys  *)
(* of the collection, in their original order.                             *)
(***************************************************************************)
\* the month number of a period key of four year digits and two month digits
MonthNumber(key) ==
    DigitsToInt(Prefix(key, YearEnd)) * 12 + DigitsToInt(Slice(key, YearEnd, KeyWidth))

\* the distinct period keys of d that are chronologically after key
LaterKeys(d, key) ==
    {m \in {d[i].nengetsu : i \in DOMAIN d} : MonthNumber(m) > MonthNumber(key)}

SelectorRan == pc \in {"done", "raised"} /\ selector # NoSelector

C11_RecentPeriods ==
    (SelectorRan /\ selector.mode = "recent") =>
        /\ selector.a \in 1..Cardinality({df[i].nengetsu : i \in DOMAIN df})
        /\ filtered = SelectSeq(df, LAMBDA r : Cardinality(LaterKeys(df, r.nengetsu)) < selector.a)

\* the two latest of three periods are kept across the year end, from a sheet
\* that is not in chronological order
C11_Witness ==
    /\ SelectorRan /\ selector.mode = "recent" /\ selector.a = 2
    /\ Len(df) = 3
    /\ df[1].nengetsu = <<"2", "0", "2", "4", "0", "1">>
    /\ df[2].nengetsu = <<"2", "0", "2", "3", "1", "1">>
    /\ df[3].nengetsu = <<"2", "0", "2", "3", "1", "2">>
    /\ filtered = <<df[1], df[3]>>

(***************************************************************************)
(* C12: the search keeps a record exactly when its category label contains *)
(* the term as a case-insensitive literal substring, for every non-empty   *)
(* term, punctuation included, whatever the record's amount; an empty term *)
(* runs no search; a term without a match gives the warning, not an error. *)
(***************************************************************************)
SameLetter(a, b) == a = b \/ {a, b} = {"F", "f"}

\* term occurs in label character by character, letter case aside
LiteralSubstring(label, term) ==
    \E o \in 0..(Len(label) - Len(term)) :
        \A j \in 1..Len(term) : SameLetter(term[j], label[o + j])

C12_LiteralSubstringSearch ==
    (analysis.type = "search" /\ filtered # <<>>) =>
        IF analysis.term = <<>>
        THEN outcome = "no_query" /\ view = NoView
        ELSE LET hits == SelectSeq(filtered, LAMBDA r : LiteralSubstring(r.koumoku, analysis.term))
             IN IF hits = <<>>
                THEN outcome = "no_match" /\ view = NoView /\ pc = "done"
                ELSE outcome = "view" /\ view.kind = "search" /\ view.rows = hits

(***************************************************************************)
(* C13: whatever the period selector is set to, the records of range A and *)
(* of range B of the comparison are taken from the whole loaded collection *)
(* and are the records the selector's period-key-range filter returns for  *)
(* the same start and end indices over that collection.                    *)
(***************************************************************************)
C13_ComparatorUsesRangeFilter ==
    view.kind = "cmp" =>
        LET am == AvailableMonths(df)
        IN /\ analysis.a_start <= analysis.a_end /\ analysis.b_start <= analysis.b_end
           /\ view.df_a = YmRangeFilter(df, am[analysis.a_start + 1], am[analysis.a_end + 1])
           /\ view.df_b = YmRangeFilter(df, am[analysis.b_start + 1], am[analysis.b_end + 1])
           /\ (selector.mode = "ym_range" /\ selector.a = analysis.a_start
                  /\ selector.b = analysis.a_end) => filtered = view.df_a
           /\ (selector.mode = "ym_range" /\ selector.a = analysis.b_start
                  /\ selector.b = analysis.b_end) => filtered = view.df_b

\* the selector keeps the middle one of three periods while the comparison
\* takes the first two for A and the last two for B
C13_Witness ==
    /\ view.kind = "cmp"
    /\ Len(AvailableMonths(df)) = 3
    /\ selector = SelInput("ym_range", 1, 1)
    /\ Len(filtered) = 1
    /\ analysis.a_start = 0 /\ analysis.a_end = 1
    /\ analysis.b_start = 1 /\ analysis.b_end = 2
    /\ Len(view.df_a) = 2 /\ Len(view.df_b) = 2
    /\ view.df_a # view.df_b

(***************************************************************************)
(* C14: the date range filter with start date <= end date returns exactly  *)
(* the records whose timestamp falls on a calendar date from the start     *)
(* date to the end date, both included, whatever the time of day, in their *)
(* original order; a record without a timestamp is never returned, so with *)
(* the default bounds (earliest and latest date of the data) the whole     *)
(* collection comes back only when no timestamp is missing.                *)
(***************************************************************************)
\* the timestamp of r lies from 00:00 of the day first to 24:00 of the day last
OnDates(r, first, last) ==
    /\ ~r.nichiji.nat
    /\ first * 86400 <= r.nichiji.day * 86400 + r.nichiji.sec
    /\ r.nichiji.day * 86400 + r.nichiji.sec < (last + 1) * 86400

DatedPositions(d) == {i \in DOMAIN d : ~d[i].nichiji.nat}

C14_DateRangeInclusive ==
    (SelectorRan /\ selector.mode = "date_range" /\ selector.a <= selector.b) =>
        /\ filtered = SelectSeq(df, LAMBDA r : OnDates(r, selector.a, selector.b))
        /\ \A i \in DOMAIN filtered : ~filtered[i].nichiji.nat
        /\ (/\ DatedPositions(df) # {}
            /\ \A i \in DatedPositions(df) :
                  selector.a <= df[i].nichiji.day /\ df[i].nichiji.day <= selector.b)
              => (filtered = df <=> DatedPositions(df) = DOMAIN df)

\* start and end on the last day: the record of that day after midnight is
\* kept, the record of the first day and the record without a timestamp are not
C14_Witness ==
    /\ SelectorRan /\ selector = SelInput("date_range", 3, 3)
    /\ Len(df) = 3 /\ Len(filtered) = 1
    /\ filtered[1].nichiji.sec > 0
    /\ \E i \in DOMAIN df : df[i].nichiji.nat
    /\ \E i \in DOMAIN df : ~df[i].nichiji.nat /\ df[i].nichiji.day = 1

====
